---- MODULE Spec2Model ----
(***************************************************************************)
(* Model of the Starstream Coin ledger and shop (src/database.py) and of   *)
(* the slash commands that drive it (src/bot.py).                          *)
(*                                                                         *)
(* The store is one SQLite file; every database function opens its own     *)
(* connection.  A write transaction (first INSERT/UPDATE/DELETE up to      *)
(* commit) is atomic for every other connection; a connection closed       *)
(* without commit rolls its changes back.  Every `await` of a command is a *)
(* point where other commands run, so a command is a process whose steps   *)
(* are its database calls and its calls to the chat platform.              *)
(***************************************************************************)
EXTENDS Integers, FiniteSets, Sequences, TLC

\* ---- bounds of the model ----
NUsers == 2
NGuilds == 2
NNames == 1
NRoles == 2
MaxAmount == 1
MaxCost == 1
NProcs == 2
MaxCmds == 5
MaxItems == 2
MaxLimit == 3

Users == 1..NUsers
Guilds == 1..NGuilds
Names == 1..NNames
Roles == 1..NRoles
Procs == 1..NProcs
\* amounts a user can type: the non-positive ones are represented by 0
Amounts == -1..MaxAmount
Costs == -1..MaxCost
Limits == 0..MaxLimit

\* SQL NULL / Python None (user, item, role and guild ids are positive)
NULL == -1

\* ---- configuration of bot.py ----
CONSTELLATION_USER_IDS == {1}
CONSTELLATION_ROLE_IDS == {1}
MAIN_GUILD_ID == 1

\* bot.py 145: the limit /leaderboard passes to get_leaderboard
LEADERBOARD_LIMIT == 10

\* the guild a role belongs to (a role id belongs to exactly one guild)
RoleGuild(r) == ((r - 1) % NGuilds) + 1

VARIABLES
  users,         \* table users: user_id -> balance, for the rows that exist
  shop_items,    \* table shop_items: set of rows
  seq,           \* AUTOINCREMENT counter of shop_items.item_id
  member_roles,  \* platform state: set of <<user, role>> held
  proc,          \* the command invocations in flight: locals and position
  ncmds,         \* number of commands invoked so far
  history,       \* <<item_id, user, how>> of the purchases that ended with the buyer
                 \* debited and not refunded: how = "ok" (reported as a success) or
                 \* "unrefunded" (ended in the handler without the refund)
  ledger         \* the books: the amounts the generate commands that returned were
                 \* asked to mint, minus the amounts the confiscate commands that
                 \* returned took, minus the costs of the purchases reported as
                 \* successes

vars == <<users, shop_items, seq, member_roles, proc, ncmds, history, ledger>>

NoItem ==
  [item_id |-> NULL, guild_id |-> NULL, name |-> NULL, cost |-> 0, role_id |-> NULL,
   is_one_time_buy |-> FALSE, purchased_by_user_id |-> NULL]

\* a slot with no command in it.  pc is the position of the command, result its
\* outcome; fail is the step of a purchase that raised, net the change the
\* purchase has made to its buyer's balance so far, granted and marked whether
\* it has granted the role and written purchased_by_user_id
Idle ==
  [pc |-> "done", cmd |-> "none", user |-> NULL, target |-> NULL, amount |-> 0,
   item |-> NoItem, read |-> 0, ret |-> "done", result |-> "none", fail |-> "none",
   net |-> 0, granted |-> FALSE, marked |-> FALSE]

\* Python truthiness of an optional integer (None and 0 are falsy)
Truthy(x) == x /= NULL /\ x /= 0

Min(a, b) == IF a <= b THEN a ELSE b

\* ---- database.py: the ledger ----

\* balance of u as a SELECT on the committed store sees it (no row: nothing)
HasRow(tbl, u) == u \in DOMAIN tbl

\* faulty variant of get_or_create_user: the row is created with balance 1
get_or_create_user_default_one(tbl, u) == IF HasRow(tbl, u) THEN tbl ELSE tbl @@ (u :> 1)

\* database.py 32-36, inside the caller's connection
get_or_create_user(tbl, u) == IF HasRow(tbl, u) THEN tbl ELSE tbl @@ (u :> 0)

\* faulty variant of update_balance: a balance is not let below 0
update_balance_floor(tbl, u, d) ==
  IF HasRow(tbl, u) THEN [tbl EXCEPT ![u] = IF @ + d < 0 THEN 0 ELSE @ + d] ELSE tbl

\* UPDATE users SET balance = balance + d WHERE user_id = u
update_balance(tbl, u, d) == IF HasRow(tbl, u) THEN [tbl EXCEPT ![u] = @ + d] ELSE tbl

\* database.py 38-45: the value get_balance returns.  When the SELECT of
\* _get_or_create_user finds no row, the INSERT that follows is a second step
\* of the caller (the *Insert actions below): it raises IntegrityError when
\* another connection has committed the row in between, and otherwise holds
\* the write lock until the connection is closed, so that 0 is returned
get_balance(tbl, u) ==
  LET view == get_or_create_user(tbl, u)
  IN  IF HasRow(view, u) THEN view[u] ELSE 0

\* database.py 40-45: the store after get_balance closed its connection; the
\* INSERT of _get_or_create_user is never committed, so it is rolled back
get_balance_store(tbl, u) == tbl

\* database.py 49-53 when the SELECT of _get_or_create_user found the row
add_coins_existing(tbl, u, d) == update_balance(tbl, u, d)

\* database.py 49-53 when the SELECT found no row: INSERT, UPDATE, commit
add_coins_insert(tbl, u, d) == update_balance(tbl @@ (u :> 0), u, d)

\* faulty variant of transfer_coins_check: the sender is debited before the check
transfer_coins_check_debit_first(tbl, s, n) ==
  [ok |-> ~(get_balance(tbl, s) < n), store |-> update_balance(tbl, s, 0 - n)]

\* database.py 57-60: the balance check of transfer_coins: whether it passes,
\* and the store it leaves
transfer_coins_check(tbl, s, n) ==
  [ok |-> ~(get_balance(tbl, s) < n), store |-> get_balance_store(tbl, s)]

\* faulty variant of transfer_write: the recipient is not bootstrapped, so the
\* credit of an account without a row updates nothing
transfer_write_no_bootstrap(tbl, s, r, n) ==
  update_balance(update_balance(tbl, s, 0 - n), r, n)

\* database.py 61-65: the write transaction of transfer_coins
transfer_write(tbl, s, r, n) ==
  update_balance(update_balance(get_or_create_user(tbl, r), s, 0 - n), r, n)

\* balance of an account as the spec speaks of it (no record: 0)
Balance(tbl, u) == IF HasRow(tbl, u) THEN tbl[u] ELSE 0

RECURSIVE SumOver(_, _)
SumOver(tbl, S) ==
  IF S = {} THEN 0
  ELSE LET u == CHOOSE x \in S : TRUE IN Balance(tbl, u) + SumOver(tbl, S \ {u})

TotalBalance(tbl) == SumOver(tbl, Users)

\* database.py 71, ORDER BY balance DESC: the rows of the accounts in S, largest
\* balance first.  SQL leaves the order of rows with equal balances open: rev
\* tells whether they come out in descending or in ascending user_id order
RECURSIVE order_by_balance_desc(_, _, _)
order_by_balance_desc(tbl, S, rev) ==
  IF S = {} THEN <<>>
  ELSE LET top == CHOOSE u \in S : \A v \in S :
                    \/ tbl[u] > tbl[v]
                    \/ tbl[u] = tbl[v] /\ (IF rev THEN u >= v ELSE u <= v)
       IN  <<[user_id |-> top, balance |-> tbl[top]]>>
             \o order_by_balance_desc(tbl, S \ {top}, rev)

\* database.py 71, LIMIT ?: the first `limit` rows; a negative limit is no limit
limit_rows(rows, limit) ==
  IF limit < 0 THEN rows ELSE SubSeq(rows, 1, Min(limit, Len(rows)))

\* the rows of the accounts in S in user_id order
RECURSIVE rows_by_user_id(_, _)
rows_by_user_id(tbl, S) ==
  IF S = {} THEN <<>>
  ELSE LET first == CHOOSE u \in S : \A v \in S : u <= v
       IN  <<[user_id |-> first, balance |-> tbl[first]]>> \o rows_by_user_id(tbl, S \ {first})

\* faulty variant of get_leaderboard: the ORDER BY is left out
get_leaderboard_unordered(tbl, limit, rev) ==
  limit_rows(rows_by_user_id(tbl, DOMAIN tbl), limit)

\* database.py 68-73
get_leaderboard(tbl, limit, rev) ==
  limit_rows(order_by_balance_desc(tbl, DOMAIN tbl, rev), limit)

\* ---- bot.py: permissions ----

\* bot.py 51-57; g is the guild the command is invoked in
is_constellation(author, g) ==
  \/ author \in CONSTELLATION_USER_IDS
  \/ \E r \in Roles : /\ RoleGuild(r) = g
                      /\ <<author, r>> \in member_roles
                      /\ r \in CONSTELLATION_ROLE_IDS

\* ---- process bookkeeping ----

\* a new command takes the first free slot (slots are anonymous)
CanStart(p) ==
  /\ proc[p].pc = "done"
  /\ \A q \in Procs : q < p => proc[q].pc /= "done"
  /\ ncmds < MaxCmds

Finish(p, c, res) ==
  proc' = [proc EXCEPT ![p] = [Idle EXCEPT !.cmd = c, !.result = res]]

Init ==
  /\ users = <<>>
  /\ shop_items = {}
  /\ seq = 0
  /\ member_roles = {}
  /\ proc = [p \in Procs |-> Idle]
  /\ ncmds = 0
  /\ history = {}
  /\ ledger = 0

\* ---- /balance, /leaderboard : bot.py 93-104, 143-166 ----

\* bot.py 93-104: the balance get_balance returns is shown to the caller
BalanceCommand(p, target) ==
  /\ CanStart(p)
  /\ ncmds' = ncmds + 1
  /\ UNCHANGED <<shop_items, seq, member_roles, history, ledger>>
  /\ IF HasRow(users, target)
     THEN /\ users' = get_balance_store(users, target)
          /\ proc' = [proc EXCEPT ![p] =
               [Idle EXCEPT !.cmd = "balance", !.result = "ok",
                            !.read = get_balance(users, target)]]
     ELSE /\ users' = users
          /\ proc' = [proc EXCEPT ![p] =
               [Idle EXCEPT !.pc = "balance_insert", !.cmd = "balance", !.target = target]]

\* database.py 36, 41-45: the INSERT of a get_balance whose SELECT found no row
BalanceInsert(p) ==
  /\ proc[p].pc = "balance_insert"
  /\ UNCHANGED <<shop_items, seq, member_roles, history, ncmds, ledger>>
  /\ IF HasRow(users, proc[p].target)
     THEN /\ users' = users
          /\ Finish(p, "balance", "error")
     ELSE /\ users' = get_balance_store(users, proc[p].target)
          /\ proc' = [proc EXCEPT ![p] =
               [Idle EXCEPT !.cmd = "balance", !.result = "ok",
                            !.read = get_balance(users, proc[p].target)]]

\* bot.py 143-166: the ranking is shown, or the message for an empty ranking
Leaderboard(p, rev) ==
  /\ CanStart(p)
  /\ ncmds' = ncmds + 1
  /\ UNCHANGED <<users, shop_items, seq, member_roles, history, ledger>>
  /\ Finish(p, "leaderboard",
            IF get_leaderboard(users, LEADERBOARD_LIMIT, rev) = <<>> THEN "empty" ELSE "ok")

\* ---- /pay : bot.py 106-141, database.py 55-66 ----

\* the command up to the balance check of transfer_coins (database.py 58-60)
Pay(p, sender, recipient, is_bot, amount) ==
  /\ CanStart(p)
  /\ ncmds' = ncmds + 1
  /\ UNCHANGED <<shop_items, seq, member_roles, history, ledger>>
  /\ IF amount <= 0 \/ is_bot \/ recipient = sender
     THEN /\ users' = users
          /\ Finish(p, "pay", "rejected")
     ELSE IF ~HasRow(users, sender)
     THEN /\ users' = users
          /\ proc' = [proc EXCEPT ![p] =
               [Idle EXCEPT !.pc = "pay_insert", !.cmd = "pay", !.user = sender,
                            !.target = recipient, !.amount = amount]]
     ELSE /\ users' = transfer_coins_check(users, sender, amount).store
          /\ IF ~transfer_coins_check(users, sender, amount).ok
             THEN Finish(p, "pay", "insufficient")
             ELSE proc' = [proc EXCEPT ![p] =
                    [Idle EXCEPT !.pc = "xfer_select", !.cmd = "pay", !.user = sender,
                                 !.target = recipient, !.amount = amount]]

\* database.py 36, 58-60: the INSERT of the get_balance of a sender without a
\* row, and the balance check on the 0 it returns
PayInsert(p) ==
  /\ proc[p].pc = "pay_insert"
  /\ UNCHANGED <<shop_items, seq, member_roles, history, ncmds, ledger>>
  /\ IF HasRow(users, proc[p].user)
     THEN /\ users' = users
          /\ Finish(p, "pay", "error")
     ELSE /\ users' = transfer_coins_check(users, proc[p].user, proc[p].amount).store
          /\ IF ~transfer_coins_check(users, proc[p].user, proc[p].amount).ok
             THEN Finish(p, "pay", "insufficient")
             ELSE proc' = [proc EXCEPT ![p].pc = "xfer_select"]

\* database.py 61-66: SELECT of _get_or_create_user(recipient); when the row
\* exists the two UPDATEs and the commit follow in one write transaction
XferSelect(p) ==
  /\ proc[p].pc = "xfer_select"
  /\ UNCHANGED <<shop_items, seq, member_roles, history, ncmds, ledger>>
  /\ IF HasRow(users, proc[p].target)
     THEN /\ users' = transfer_write(users, proc[p].user, proc[p].target, proc[p].amount)
          /\ Finish(p, "pay", "ok")
     ELSE /\ users' = users
          /\ proc' = [proc EXCEPT ![p].pc = "xfer_insert"]

\* database.py 36, 63-66: the INSERT of the recipient starts the write
\* transaction; it raises IntegrityError when another connection has committed
\* the row since the SELECT
XferInsert(p) ==
  /\ proc[p].pc = "xfer_insert"
  /\ UNCHANGED <<shop_items, seq, member_roles, history, ncmds, ledger>>
  /\ IF HasRow(users, proc[p].target)
     THEN /\ users' = users
          /\ Finish(p, "pay", "error")
     ELSE /\ users' = transfer_write(users, proc[p].user, proc[p].target, proc[p].amount)
          /\ Finish(p, "pay", "ok")

\* ---- add_coins on an account without a row : database.py 36, 52-53 ----

\* one call of add_coins(u, d) by process p, from its SELECT on; `next` is the
\* position of p after the call returns
\* what a generate or a confiscate that returns from its add_coins(u, d) enters
\* in the books (a purchase is entered when it is reported as a success)
ledger_entry(cmd, d) == IF cmd \in {"generate", "confiscate"} THEN d ELSE 0

NetAfter(p, u) ==
  IF proc[p].cmd = "buy" THEN proc[p].net + Balance(users', u) - Balance(users, u) ELSE 0

AddCoins(p, u, d, next) ==
  IF HasRow(users, u)
  THEN /\ users' = add_coins_existing(users, u, d)
       /\ ledger' = ledger + ledger_entry(next.cmd, d)
       /\ proc' = [proc EXCEPT ![p] = [next EXCEPT !.net = NetAfter(p, u)]]
  ELSE /\ users' = users
       /\ ledger' = ledger
       /\ proc' = [proc EXCEPT ![p] =
            [next EXCEPT !.pc = "add_insert", !.target = u, !.amount = d, !.ret = next.pc]]

\* the INSERT, UPDATE and commit of an add_coins whose SELECT found no row;
\* IntegrityError when the row has been committed by another connection since
AddInsert(p) ==
  /\ proc[p].pc = "add_insert"
  /\ UNCHANGED <<shop_items, seq, member_roles, history, ncmds>>
  /\ IF HasRow(users, proc[p].target)
     THEN /\ users' = users
          /\ ledger' = ledger
          /\ proc' = [proc EXCEPT ![p] =
               IF proc[p].cmd = "buy" /\ proc[p].ret = "buy_grant"
               THEN [proc[p] EXCEPT !.pc = "buy_except", !.ret = "done", !.fail = "debit",
                                    !.target = NULL, !.amount = 0]
               ELSE IF proc[p].cmd = "buy"
               THEN [proc[p] EXCEPT !.pc = "done", !.ret = "done",
                                    !.result = "refund_failed", !.target = NULL,
                                    !.amount = 0, !.user = NULL, !.item = NoItem]
               ELSE [Idle EXCEPT !.cmd = proc[p].cmd, !.result = "error"]]
     ELSE /\ users' = add_coins_insert(users, proc[p].target, proc[p].amount)
          /\ ledger' = ledger + ledger_entry(proc[p].cmd, proc[p].amount)
          /\ proc' = [proc EXCEPT ![p] =
               IF proc[p].cmd = "buy"
               THEN [proc[p] EXCEPT !.pc = proc[p].ret, !.ret = "done",
                                    !.target = NULL, !.amount = 0,
                                    !.net = NetAfter(p, proc[p].target)]
               ELSE [Idle EXCEPT !.cmd = proc[p].cmd, !.result = "ok"]]

\* ---- /constellation generate : bot.py 176-200 ----

\* faulty variant of Generate: the amount is not checked
GenerateAnyAmount(p, author, amount, recipient) ==
  /\ CanStart(p)
  /\ ncmds' = ncmds + 1
  /\ UNCHANGED <<shop_items, seq, member_roles, history>>
  /\ IF ~is_constellation(author, MAIN_GUILD_ID)
     THEN /\ users' = users
          /\ ledger' = ledger
          /\ Finish(p, "generate", "rejected")
     ELSE AddCoins(p, recipient, amount, [Idle EXCEPT !.cmd = "generate", !.result = "ok"])

Generate(p, author, amount, recipient) ==
  /\ CanStart(p)
  /\ ncmds' = ncmds + 1
  /\ UNCHANGED <<shop_items, seq, member_roles, history>>
  /\ IF ~is_constellation(author, MAIN_GUILD_ID) \/ amount <= 0
     THEN /\ users' = users
          /\ ledger' = ledger
          /\ Finish(p, "generate", "rejected")
     ELSE AddCoins(p, recipient, amount, [Idle EXCEPT !.cmd = "generate", !.result = "ok"])

\* ---- /constellation confiscate : bot.py 212-241 ----

\* bot.py 213-218: the guards and the read of the current balance
Confiscate(p, author, amount, recipient) ==
  /\ CanStart(p)
  /\ ncmds' = ncmds + 1
  /\ UNCHANGED <<shop_items, seq, member_roles, history, ledger>>
  /\ IF ~is_constellation(author, MAIN_GUILD_ID) \/ amount <= 0
     THEN /\ users' = users
          /\ Finish(p, "confiscate", "rejected")
     ELSE IF ~HasRow(users, recipient)
     THEN /\ users' = users
          /\ proc' = [proc EXCEPT ![p] =
               [Idle EXCEPT !.pc = "conf_insert", !.cmd = "confiscate",
                            !.target = recipient, !.amount = amount]]
     ELSE /\ users' = get_balance_store(users, recipient)
          /\ proc' = [proc EXCEPT ![p] =
               [Idle EXCEPT !.pc = "conf_debit", !.cmd = "confiscate",
                            !.target = recipient, !.amount = amount,
                            !.read = get_balance(users, recipient)]]

\* database.py 36, bot.py 218: the INSERT of the get_balance of a member
\* without a row
ConfInsert(p) ==
  /\ proc[p].pc = "conf_insert"
  /\ UNCHANGED <<shop_items, seq, member_roles, history, ncmds, ledger>>
  /\ IF HasRow(users, proc[p].target)
     THEN /\ users' = users
          /\ Finish(p, "confiscate", "error")
     ELSE /\ users' = get_balance_store(users, proc[p].target)
          /\ proc' = [proc EXCEPT ![p].pc = "conf_debit",
                                  ![p].read = get_balance(users, proc[p].target)]

\* bot.py 221: the amount the debit removes
amount_to_remove(amount, current_balance) == Min(amount, current_balance)

\* bot.py 221-223: the capped debit
ConfDebit(p) ==
  /\ proc[p].pc = "conf_debit"
  /\ UNCHANGED <<shop_items, seq, member_roles, history, ncmds>>
  /\ AddCoins(p, proc[p].target, 0 - amount_to_remove(proc[p].amount, proc[p].read),
              [Idle EXCEPT !.cmd = "confiscate", !.result = "ok"])

\* ---- database.py: the catalog ----

\* database.py 98-104: the row of (g, name) or NoItem for None
get_shop_item(tbl, g, name) ==
  IF \E it \in tbl : it.guild_id = g /\ it.name = name
  THEN CHOOSE it \in tbl : it.guild_id = g /\ it.name = name
  ELSE NoItem

\* faulty variant of add_shop_item_conflict: the name is unique over all guilds
add_shop_item_conflict_any_guild(tbl, g, name) == \E it \in tbl : it.name = name

\* database.py 77-88: whether the INSERT violates UNIQUE(guild_id, name)
add_shop_item_conflict(tbl, g, name) ==
  \E it \in tbl : it.guild_id = g /\ it.name = name

\* database.py 81-85: the table after the INSERT (purchased_by_user_id is NULL)
add_shop_item(tbl, id, g, name, cost, role, one_time_buy) ==
  tbl \cup {[item_id |-> id, guild_id |-> g, name |-> name, cost |-> cost,
             role_id |-> role, is_one_time_buy |-> one_time_buy,
             purchased_by_user_id |-> NULL]}

\* faulty variant of remove_shop_item: the name is deleted in every guild
remove_shop_item_any_guild(tbl, g, name) == {it \in tbl : it.name /= name}

\* database.py 90-96
remove_shop_item(tbl, g, name) == {it \in tbl : ~(it.guild_id = g /\ it.name = name)}

\* database.py 113-117
mark_item_as_purchased(tbl, id, u) ==
  {IF it.item_id = id THEN [it EXCEPT !.purchased_by_user_id = u] ELSE it : it \in tbl}

\* ---- /shop add, /shop remove : bot.py 249-291, 383-407 ----

\* g = NULL is a command invoked outside a guild
ShopAdd(p, author, g, name, cost, role, one_time_buy) ==
  /\ CanStart(p)
  /\ g /= NULL => RoleGuild(role) = g
  /\ ncmds' = ncmds + 1
  /\ UNCHANGED <<users, member_roles, history, ledger>>
  /\ IF ~is_constellation(author, g) \/ g = NULL \/ cost <= 0
     THEN /\ UNCHANGED <<shop_items, seq>>
          /\ Finish(p, "shop_add", "rejected")
     ELSE IF add_shop_item_conflict(shop_items, g, name)
          THEN /\ UNCHANGED <<shop_items, seq>>
               /\ Finish(p, "shop_add", "duplicate")
          ELSE /\ seq < MaxItems
               /\ shop_items' = add_shop_item(shop_items, seq + 1, g, name, cost, role,
                                              one_time_buy)
               /\ seq' = seq + 1
               /\ Finish(p, "shop_add", "ok")

ShopRemove(p, author, g, name) ==
  /\ CanStart(p)
  /\ ncmds' = ncmds + 1
  /\ UNCHANGED <<users, seq, member_roles, history, ledger>>
  /\ IF ~is_constellation(author, g) \/ g = NULL
     THEN /\ UNCHANGED shop_items
          /\ Finish(p, "shop_remove", "rejected")
     ELSE /\ shop_items' = remove_shop_item(shop_items, g, name)
          /\ Finish(p, "shop_remove",
                    IF shop_items' /= shop_items THEN "ok" ELSE "not_found")

\* ---- /shop buy : bot.py 327-380 ----

\* a finished purchase keeps its outcome and what it did, not its locals
BuyEnd(p, res) ==
  proc' = [proc EXCEPT ![p].pc = "done", ![p].result = res, ![p].user = NULL,
                       ![p].item = NoItem]

\* the history once purchase p has ended in the handler without its refund
Unrefunded(p) ==
  IF proc[p].net < 0
  THEN history \cup {<<proc[p].item.item_id, proc[p].user, "unrefunded">>}
  ELSE history

\* faulty variant of already_claimed: the claim of a unique item is not looked at
already_claimed_unchecked(item) == item.is_one_time_buy /\ FALSE

\* bot.py 333: the already-claimed test on the item read at line 330
already_claimed(item) == item.is_one_time_buy /\ Truthy(item.purchased_by_user_id)

\* bot.py 328-334: the guild guard, the item lookup and the claimed check
Buy(p, buyer, g, name) ==
  /\ CanStart(p)
  /\ ncmds' = ncmds + 1
  /\ UNCHANGED <<users, shop_items, seq, member_roles, history, ledger>>
  /\ LET item == get_shop_item(shop_items, g, name)
         me   == [Idle EXCEPT !.cmd = "buy"]
         run  == [me EXCEPT !.pc = "buy_check", !.user = buyer]
     IN  IF g = NULL
         THEN proc' = [proc EXCEPT ![p] = [me EXCEPT !.result = "rejected"]]
         ELSE IF item = NoItem
         THEN proc' = [proc EXCEPT ![p] = [me EXCEPT !.result = "not_found"]]
         ELSE IF already_claimed(item)
         THEN proc' = [proc EXCEPT ![p] = [me EXCEPT !.result = "already_claimed"]]
         ELSE proc' = [proc EXCEPT ![p] = [run EXCEPT !.item = item]]

\* bot.py 337: the affordability test
can_afford(user_balance, cost) == ~(user_balance < cost)

\* faulty variant of BuyCheck: the cost is taken as soon as it is seen to be
\* affordable, before the checks on the role
BuyCheckDebits(p) ==
  /\ proc[p].pc = "buy_check"
  /\ UNCHANGED <<shop_items, seq, member_roles, history, ncmds, ledger>>
  /\ IF ~can_afford(get_balance(users, proc[p].user), proc[p].item.cost)
     THEN /\ users' = users
          /\ BuyEnd(p, "insufficient")
     ELSE /\ users' = update_balance(users, proc[p].user, 0 - proc[p].item.cost)
          /\ proc' = [proc EXCEPT ![p].pc = "buy_roles"]

\* bot.py 336-338: the affordability check
BuyCheck(p) ==
  /\ proc[p].pc = "buy_check"
  /\ UNCHANGED <<shop_items, seq, member_roles, history, ncmds, ledger>>
  /\ IF ~HasRow(users, proc[p].user)
     THEN /\ users' = users
          /\ proc' = [proc EXCEPT ![p].pc = "buy_check_insert"]
     ELSE /\ users' = get_balance_store(users, proc[p].user)
          /\ LET user_balance == get_balance(users, proc[p].user)
             IN  IF ~can_afford(user_balance, proc[p].item.cost)
                 THEN BuyEnd(p, "insufficient")
                 ELSE proc' = [proc EXCEPT ![p].pc = "buy_roles"]

\* database.py 36, bot.py 336-338: the INSERT of the get_balance of a buyer
\* without a row; its IntegrityError is raised outside the try of line 350
BuyCheckInsert(p) ==
  /\ proc[p].pc = "buy_check_insert"
  /\ UNCHANGED <<shop_items, seq, member_roles, history, ncmds, ledger>>
  /\ IF HasRow(users, proc[p].user)
     THEN /\ users' = users
          /\ BuyEnd(p, "error")
     ELSE /\ users' = get_balance_store(users, proc[p].user)
          /\ LET user_balance == get_balance(users, proc[p].user)
             IN  IF ~can_afford(user_balance, proc[p].item.cost)
                 THEN BuyEnd(p, "insufficient")
                 ELSE proc' = [proc EXCEPT ![p].pc = "buy_roles"]

\* bot.py 340-348: the checks on the reward role, made when the coroutine
\* resumes after get_balance; whether the role still exists and whether the bot
\* may grant it is decided by the platform (env)
BuyRoles(p, env) ==
  /\ proc[p].pc = "buy_roles"
  /\ UNCHANGED <<users, shop_items, seq, member_roles, history, ncmds, ledger>>
  /\ IF env = "role_missing"
     THEN BuyEnd(p, "role_missing")
     ELSE IF <<proc[p].user, proc[p].item.role_id>> \in member_roles
     THEN BuyEnd(p, "role_held")
     ELSE IF env = "not_grantable"
     THEN BuyEnd(p, "not_grantable")
     ELSE proc' = [proc EXCEPT ![p].pc = "buy_debit"]

\* bot.py 352: the debit
BuyDebit(p) ==
  /\ proc[p].pc = "buy_debit"
  /\ UNCHANGED <<shop_items, seq, member_roles, history, ncmds>>
  /\ AddCoins(p, proc[p].user, 0 - proc[p].item.cost,
              [proc[p] EXCEPT !.pc = "buy_grant"])

\* bot.py 352: the storage raises (database locked or unavailable); nothing is
\* committed and control passes to the handler at line 377
BuyDebitFails(p) ==
  /\ proc[p].pc = "buy_debit"
  /\ UNCHANGED <<users, shop_items, seq, member_roles, history, ncmds, ledger>>
  /\ proc' = [proc EXCEPT ![p].pc = "buy_except", ![p].fail = "debit"]

\* faulty variant of BuyGrant: purchased_by_user_id is written for every item
BuyGrantAlwaysMarks(p) ==
  /\ proc[p].pc = "buy_grant"
  /\ member_roles' = member_roles \cup {<<proc[p].user, proc[p].item.role_id>>}
  /\ UNCHANGED <<users, shop_items, seq, history, ncmds, ledger>>
  /\ proc' = [proc EXCEPT ![p].granted = TRUE, ![p].pc = "buy_mark"]

\* bot.py 353: the platform grants the role
BuyGrant(p) ==
  /\ proc[p].pc = "buy_grant"
  /\ member_roles' = member_roles \cup {<<proc[p].user, proc[p].item.role_id>>}
  /\ UNCHANGED <<users, shop_items, seq, history, ncmds, ledger>>
  /\ proc' = [proc EXCEPT ![p].granted = TRUE,
                          ![p].pc = IF proc[p].item.is_one_time_buy
                                    THEN "buy_mark" ELSE "buy_respond"]

\* bot.py 353: add_roles raises (Forbidden, HTTPException)
BuyGrantFails(p) ==
  /\ proc[p].pc = "buy_grant"
  /\ UNCHANGED <<users, shop_items, seq, member_roles, history, ncmds, ledger>>
  /\ proc' = [proc EXCEPT ![p].pc = "buy_except", ![p].fail = "grant"]

\* bot.py 354-355
BuyMark(p) ==
  /\ proc[p].pc = "buy_mark"
  /\ shop_items' = mark_item_as_purchased(shop_items, proc[p].item.item_id, proc[p].user)
  /\ UNCHANGED <<users, seq, member_roles, history, ncmds, ledger>>
  /\ proc' = [proc EXCEPT ![p].pc = "buy_respond", ![p].marked = TRUE]

\* bot.py 355: the storage raises
BuyMarkFails(p) ==
  /\ proc[p].pc = "buy_mark"
  /\ UNCHANGED <<users, shop_items, seq, member_roles, history, ncmds, ledger>>
  /\ proc' = [proc EXCEPT ![p].pc = "buy_except", ![p].fail = "mark"]

\* bot.py 357-375: the response is delivered; send_log swallows its errors
BuyRespond(p) ==
  /\ proc[p].pc = "buy_respond"
  /\ history' = history \cup {<<proc[p].item.item_id, proc[p].user, "ok">>}
  /\ ledger' = ledger - proc[p].item.cost
  /\ UNCHANGED <<users, shop_items, seq, member_roles, ncmds>>
  /\ BuyEnd(p, "ok")

\* bot.py 364: ctx.respond raises
BuyRespondFails(p) ==
  /\ proc[p].pc = "buy_respond"
  /\ UNCHANGED <<users, shop_items, seq, member_roles, history, ncmds, ledger>>
  /\ proc' = [proc EXCEPT ![p].pc = "buy_except", ![p].fail = "respond"]

\* bot.py 377-379: the handler reports the failure, then goes on to the refund
BuyExcept(p) ==
  /\ proc[p].pc = "buy_except"
  /\ UNCHANGED <<users, shop_items, seq, member_roles, history, ncmds, ledger>>
  /\ proc' = [proc EXCEPT ![p].pc = "buy_refund"]

\* bot.py 379: ctx.respond raises inside the handler; line 380 is not reached
BuyExceptFails(p) ==
  /\ proc[p].pc = "buy_except"
  /\ history' = Unrefunded(p)
  /\ UNCHANGED <<users, shop_items, seq, member_roles, ncmds, ledger>>
  /\ BuyEnd(p, "error")

\* bot.py 380: the refund
BuyRefund(p) ==
  /\ proc[p].pc = "buy_refund"
  /\ UNCHANGED <<shop_items, seq, member_roles, history, ncmds>>
  /\ AddCoins(p, proc[p].user, proc[p].item.cost,
              [proc[p] EXCEPT !.pc = "done", !.result = "refunded", !.user = NULL,
                              !.item = NoItem])

\* bot.py 380: the storage raises
BuyRefundFails(p) ==
  /\ proc[p].pc = "buy_refund"
  /\ history' = Unrefunded(p)
  /\ UNCHANGED <<users, shop_items, seq, member_roles, ncmds, ledger>>
  /\ BuyEnd(p, "refund_failed")

RoleEnv == {"ok", "role_missing", "not_grantable"}

Next ==
  \/ \E p \in Procs, u \in Users : BalanceCommand(p, u)
  \/ \E p \in Procs, rev \in BOOLEAN : Leaderboard(p, rev)
  \/ \E p \in Procs : BalanceInsert(p)
  \/ \E p \in Procs : PayInsert(p)
  \/ \E p \in Procs : ConfInsert(p)
  \/ \E p \in Procs : BuyCheckInsert(p)
  \/ \E p \in Procs, s \in Users, r \in Users, b \in BOOLEAN, n \in Amounts :
        Pay(p, s, r, b, n)
  \/ \E p \in Procs : XferSelect(p)
  \/ \E p \in Procs : XferInsert(p)
  \/ \E p \in Procs : AddInsert(p)
  \/ \E p \in Procs, a \in Users, n \in Amounts, r \in Users : Generate(p, a, n, r)
  \/ \E p \in Procs, a \in Users, n \in Amounts, r \in Users : Confiscate(p, a, n, r)
  \/ \E p \in Procs : ConfDebit(p)
  \/ \E p \in Procs, a \in Users, g \in Guilds \cup {NULL}, nm \in Names, c \in Costs,
        r \in Roles, o \in BOOLEAN : ShopAdd(p, a, g, nm, c, r, o)
  \/ \E p \in Procs, a \in Users, g \in Guilds \cup {NULL}, nm \in Names :
        ShopRemove(p, a, g, nm)
  \/ \E p \in Procs, u \in Users, g \in Guilds \cup {NULL}, nm \in Names : Buy(p, u, g, nm)
  \/ \E p \in Procs : BuyCheck(p)
  \/ \E p \in Procs, env \in RoleEnv : BuyRoles(p, env)
  \/ \E p \in Procs : BuyDebit(p)
  \/ \E p \in Procs : BuyDebitFails(p)
  \/ \E p \in Procs : BuyGrant(p)
  \/ \E p \in Procs : BuyGrantFails(p)
  \/ \E p \in Procs : BuyMark(p)
  \/ \E p \in Procs : BuyMarkFails(p)
  \/ \E p \in Procs : BuyRespond(p)
  \/ \E p \in Procs : BuyRespondFails(p)
  \/ \E p \in Procs : BuyExcept(p)
  \/ \E p \in Procs : BuyExceptFails(p)
  \/ \E p \in Procs : BuyRefund(p)
  \/ \E p \in Procs : BuyRefundFails(p)

Spec == Init /\ [][Next]_vars

\* the steps of the executions in which neither the storage nor the platform
\* raises: the *Fails steps are left out, and with them the handler of bot.py
\* 377-380, which then is never entered (part of what C22 checks)
NextNoFault ==
  \/ \E p \in Procs, u \in Users : BalanceCommand(p, u)
  \/ \E p \in Procs, rev \in BOOLEAN : Leaderboard(p, rev)
  \/ \E p \in Procs : BalanceInsert(p)
  \/ \E p \in Procs : PayInsert(p)
  \/ \E p \in Procs : ConfInsert(p)
  \/ \E p \in Procs : BuyCheckInsert(p)
  \/ \E p \in Procs, s \in Users, r \in Users, b \in BOOLEAN, n \in Amounts :
        Pay(p, s, r, b, n)
  \/ \E p \in Procs : XferSelect(p)
  \/ \E p \in Procs : XferInsert(p)
  \/ \E p \in Procs : AddInsert(p)
  \/ \E p \in Procs, a \in Users, n \in Amounts, r \in Users : Generate(p, a, n, r)
  \/ \E p \in Procs, a \in Users, n \in Amounts, r \in Users : Confiscate(p, a, n, r)
  \/ \E p \in Procs : ConfDebit(p)
  \/ \E p \in Procs, a \in Users, g \in Guilds \cup {NULL}, nm \in Names, c \in Costs,
        r \in Roles, o \in BOOLEAN : ShopAdd(p, a, g, nm, c, r, o)
  \/ \E p \in Procs, a \in Users, g \in Guilds \cup {NULL}, nm \in Names :
        ShopRemove(p, a, g, nm)
  \/ \E p \in Procs, u \in Users, g \in Guilds \cup {NULL}, nm \in Names : Buy(p, u, g, nm)
  \/ \E p \in Procs : BuyCheck(p)
  \/ \E p \in Procs, env \in RoleEnv : BuyRoles(p, env)
  \/ \E p \in Procs : BuyDebit(p)
  \/ \E p \in Procs : BuyGrant(p)
  \/ \E p \in Procs : BuyMark(p)
  \/ \E p \in Procs : BuyRespond(p)

SpecNoFault == Init /\ [][NextNoFault]_vars

\* ======================= properties =======================

\* process p starts a command in this step
Starts(p) == CanStart(p) /\ ncmds' = ncmds + 1

\* the write transaction of p's transfer commits in this step
TransferCommits(p) ==
  /\ proc[p].pc \in {"xfer_select", "xfer_insert"}
  /\ proc'[p].pc = "done"
  /\ proc'[p].result = "ok"

\* C1: a transfer(a, b, n) that returns success, a /= b and n > 0, decreases
\* balance(a) by exactly n, increases balance(b) by exactly n (from 0 when b had
\* no record) and leaves the sum of all balances unchanged.
C1_TransferConserves ==
  [][\A p \in Procs :
       TransferCommits(p) =>
         LET a == proc[p].user
             b == proc[p].target
             n == proc[p].amount
         IN  /\ a /= b /\ n > 0
             /\ Balance(users', a) = Balance(users, a) - n
             /\ Balance(users', b) = Balance(users, b) + n
             /\ \A u \in Users \ {a, b} : Balance(users', u) = Balance(users, u)
             /\ TotalBalance(users') = TotalBalance(users)]_vars

\* a transfer to an account that had no record has returned success
C1_Witness ==
  \E p \in Procs :
    /\ proc[p].cmd = "pay" /\ proc[p].pc = "done" /\ proc[p].result = "ok"
    /\ \E u \in Users : HasRow(users, u) /\ users[u] > 0 /\ ncmds = 2

\* C2: a transfer that returns failure because balance(a) < n changes no
\* account balance: every account has the same balance after the call as before.
C2_FailedTransferNoOp ==
  [][\A p \in Procs :
       (/\ Starts(p) \/ proc[p].pc = "pay_insert"
        /\ proc'[p].cmd = "pay" /\ proc'[p].result = "insufficient")
         => \A u \in Users : Balance(users', u) = Balance(users, u)]_vars

\* a transfer has failed for insufficient funds while some account holds coins
C2_Witness ==
  \E p \in Procs :
    /\ proc[p].cmd = "pay" /\ proc[p].pc = "done" /\ proc[p].result = "insufficient"
    /\ \E u \in Users : Balance(users, u) > 0

\* C3: the balance check and the writes of a transfer are one indivisible unit:
\* under every interleaving, the debit of a transfer never takes a sender whose
\* balance was non-negative below zero.
C3_TransferNeverOverdraws ==
  [][\A p \in Procs :
       TransferCommits(p) =>
         (Balance(users, proc[p].user) >= 0 => Balance(users', proc[p].user) >= 0)]_vars

\* purchase p is reported as a success in this step
PurchaseSucceeds(p) ==
  /\ proc[p].pc = "buy_respond"
  /\ proc'[p].pc = "done"
  /\ proc'[p].result = "ok"

\* C4: of any number of concurrent purchases of a unique item at most one
\* succeeds, and purchased_by_user_id ends equal to the one successful buyer.
C4_UniqueItemSoldOnce ==
  [][\A p \in Procs :
       (PurchaseSucceeds(p) /\ proc[p].item.is_one_time_buy) =>
         /\ \A u \in Users : <<proc[p].item.item_id, u, "ok">> \notin history
         /\ \A it \in shop_items' :
              it.item_id = proc[p].item.item_id
                => it.purchased_by_user_id = proc[p].user]_vars

\* C5: when the reward grant of a purchase failed after the debit, the finished
\* attempt has changed its buyer's balance by 0 and has not set
\* purchased_by_user_id (the storage accepting the refund).
C5_GrantFailureRefunded ==
  \A p \in Procs :
    (proc[p].cmd = "buy" /\ proc[p].pc = "done" /\ proc[p].fail = "grant"
       /\ proc[p].result /= "refund_failed")
      => proc[p].net = 0 /\ ~proc[p].marked

\* the capped debit of p's confiscation is committed in this step
ConfiscationCommits(p) ==
  /\ proc[p].cmd = "confiscate"
  /\ proc[p].pc \in {"conf_debit", "add_insert"}
  /\ proc'[p].pc = "done"
  /\ proc'[p].result = "ok"

\* the account a confiscation in flight debits
ConfTarget(p) == proc[p].target

\* C6: confiscation never produces a negative balance: under every
\* interleaving, an account with a non-negative balance before the confiscation
\* debit has a non-negative balance after it.
C6_ConfiscationNeverOverdraws ==
  [][\A p \in Procs :
       ConfiscationCommits(p) =>
         (Balance(users, ConfTarget(p)) >= 0 => Balance(users', ConfTarget(p)) >= 0)]_vars

\* the debit of purchase p is committed in this step
PurchaseDebits(p) ==
  /\ proc[p].cmd = "buy"
  /\ proc[p].pc = "buy_debit" \/ (proc[p].pc = "add_insert" /\ proc[p].ret = "buy_grant")
  /\ proc'[p].pc = "buy_grant"

\* C7: the affordability check and the debit of a purchase do not interleave
\* with another mutation of the buyer's balance: a buyer with a non-negative
\* balance before the purchase debit has a non-negative balance after it.
C7_PurchaseNeverOverdraws ==
  [][\A p \in Procs :
       PurchaseDebits(p) =>
         (Balance(users, proc[p].user) >= 0 => Balance(users', proc[p].user) >= 0)]_vars

\* the unique item (g, nm) is in the catalog with purchased_by_user_id set
Claimed(g, nm) ==
  \E it \in shop_items :
    /\ it.guild_id = g /\ it.name = nm
    /\ it.is_one_time_buy /\ it.purchased_by_user_id /= NULL

\* C8: a purchase of a unique item that starts when the item is in the catalog
\* with purchased_by_user_id set ends at once as already claimed; it changes no
\* balance and grants no role.
C8_ClaimedItemRejected ==
  [][\A p \in Procs : (Starts(p) /\ proc'[p].cmd = "buy") =>
     \A u \in Users, g \in Guilds, nm \in Names :
       (Claimed(g, nm) /\ Buy(p, u, g, nm)) =>
         /\ proc'[p].pc = "done"
         /\ proc'[p].result = "already_claimed"
         /\ proc'[p].net = 0 /\ ~proc'[p].granted
         /\ users' = users
         /\ member_roles' = member_roles]_vars

\* a purchase was turned away as already claimed, the item still being in the
\* catalog with its buyer recorded
C8_Witness ==
  /\ \E p \in Procs :
       proc[p].cmd = "buy" /\ proc[p].pc = "done" /\ proc[p].result = "already_claimed"
  /\ \E g \in Guilds, nm \in Names : Claimed(g, nm)

\* C9: purchased_by_user_id of an item is set exactly once: once it holds a
\* user id it is never overwritten with another id and never written again.
C9_PurchasedBySetOnce ==
  [][/\ \A it \in shop_items, jt \in shop_items' :
          (it.item_id = jt.item_id /\ it.purchased_by_user_id /= NULL)
            => jt.purchased_by_user_id = it.purchased_by_user_id
     /\ \A p \in Procs :
          (proc[p].pc = "buy_mark" /\ proc'[p].marked) =>
            \A it \in shop_items :
              it.item_id = proc[p].item.item_id => it.purchased_by_user_id = NULL]_vars

\* purchase p is in flight, by u, of item id, debited and not refunded
PaidInFlight(p, id, u) ==
  /\ proc[p].cmd = "buy" /\ proc[p].pc /= "done"
  /\ proc[p].user = u /\ proc[p].item.item_id = id
  /\ proc[p].net = 0 - proc[p].item.cost

\* C10: purchased_by_user_id is set only when the item is unique and a purchase
\* succeeded: an item that is not unique has it unset, and an item that has it
\* equal to u was bought by u, who was debited the cost and not refunded.
C10_PurchasedByMeansPaid ==
  \A it \in shop_items :
    /\ ~it.is_one_time_buy => it.purchased_by_user_id = NULL
    /\ it.purchased_by_user_id /= NULL =>
         \/ \E how \in {"ok", "unrefunded"} :
              <<it.item_id, it.purchased_by_user_id, how>> \in history
         \/ \E p \in Procs : PaidInFlight(p, it.item_id, it.purchased_by_user_id)

\* C11: a finished purchase one of whose steps after the debit failed (the
\* grant, the write of purchased_by_user_id or the response) has issued the
\* compensating add_coins: it ended in the refund, not before it.
C11_FailureAfterDebitRefunds ==
  \A p \in Procs :
    (proc[p].cmd = "buy" /\ proc[p].pc = "done"
       /\ proc[p].fail \in {"grant", "mark", "respond"})
      => proc[p].result \in {"refunded", "refund_failed"}

\* C12: a purchase that ended with its refund credited has changed its buyer's
\* balance by 0 in all, also when the step that failed was the debit itself.
C12_RefundRestoresDebit ==
  \A p \in Procs :
    (proc[p].cmd = "buy" /\ proc[p].pc = "done" /\ proc[p].result = "refunded")
      => proc[p].net = 0

\* process p takes a step of a /balance command
BalanceStep(p) ==
  \/ Starts(p) /\ proc'[p].cmd = "balance"
  \/ proc[p].pc = "balance_insert" /\ proc'[p].pc /= "balance_insert"

\* C13: a get_balance of an account without a row that returns, returns 0, and
\* no step of a get_balance, whatever runs between its steps, changes a balance
\* or leaves a row for another account.
C13_GetBalanceIdempotent ==
  [][\A p \in Procs :
       BalanceStep(p) =>
         /\ (proc[p].pc = "balance_insert" /\ proc'[p].result = "ok")
              => proc'[p].read = 0
         /\ \A v \in Users : Balance(users', v) = Balance(users, v)
         /\ \A v \in Users : HasRow(users', v) /\ ~HasRow(users, v)
                               => v = proc[p].target]_vars

\* a get_balance has returned 0 for an account that has never had a row, while
\* an add_coins is between its SELECT and its INSERT
C13_Witness ==
  \E p, q \in Procs :
    /\ proc[p].cmd = "balance" /\ proc[p].pc = "done"
    /\ proc[p].result = "ok" /\ proc[p].read = 0
    /\ DOMAIN users = {}
    /\ proc[q].pc = "add_insert"

\* C14: when a get_balance of an account without a row returns, the store
\* holds a committed row for that account.
C14_GetBalanceCreatesRecord ==
  [][\A p \in Procs :
       (proc[p].pc = "balance_insert" /\ proc'[p].result = "ok")
         => HasRow(users', proc[p].target)]_vars

\* no two rows of the catalog have the same guild and name
UniqueNames(tbl) ==
  \A it, jt \in tbl : (it.guild_id = jt.guild_id /\ it.name = jt.name) => it = jt

\* C15: after every step the catalog has at most one item per (guild, name);
\* a /shop add that reaches add_shop_item is refused as a duplicate exactly
\* when its guild already has an item of that name, and then leaves the
\* catalog unchanged; otherwise (also when another guild has the name) the
\* item is added with the fields given.
C15_ItemNameUniquePerGuild ==
  [][/\ UniqueNames(shop_items')
     /\ \A p \in Procs :
        (Starts(p) /\ proc'[p].cmd = "shop_add" /\ proc'[p].result /= "rejected") =>
        \A a \in Users, g \in Guilds, nm \in Names, c \in Costs, r \in Roles,
           o \in BOOLEAN :
          (is_constellation(a, g) /\ c > 0 /\ ShopAdd(p, a, g, nm, c, r, o)) =>
            LET exists == \E it \in shop_items : it.guild_id = g /\ it.name = nm
                new    == get_shop_item(shop_items', g, nm)
            IN  /\ (proc'[p].result = "duplicate") <=> exists
                /\ exists => shop_items' = shop_items
                /\ ~exists => /\ proc'[p].result = "ok"
                              /\ shop_items \subseteq shop_items'
                              /\ new \notin shop_items
                              /\ new.cost = c /\ new.role_id = r
                              /\ new.is_one_time_buy = o]_vars

\* a /shop add has been refused as a duplicate while two guilds each hold an
\* item of the same name
C15_Witness ==
  /\ \E p \in Procs : proc[p].cmd = "shop_add" /\ proc[p].result = "duplicate"
  /\ \E it, jt \in shop_items : it.name = jt.name /\ it.guild_id /= jt.guild_id

\* C16: a /shop remove that reaches remove_shop_item reports success exactly
\* when its guild had an item of that name; afterwards the guild has none, every
\* other item (also the same name in another guild) is as it was, and no balance
\* has changed.
C16_RemoveItemFrame ==
  [][\A p \in Procs : (Starts(p) /\ proc'[p].cmd = "shop_remove") =>
     \A a \in Users, g \in Guilds, nm \in Names :
       (is_constellation(a, g) /\ ShopRemove(p, a, g, nm)) =>
         /\ (proc'[p].result = "ok") <=> (get_shop_item(shop_items, g, nm) /= NoItem)
         /\ get_shop_item(shop_items', g, nm) = NoItem
         /\ shop_items' \subseteq shop_items
         /\ \A it \in shop_items :
              ~(it.guild_id = g /\ it.name = nm) => it \in shop_items'
         /\ users' = users]_vars

\* a /shop remove has succeeded while another guild keeps its item of a name, and
\* some account holds coins
C16_Witness ==
  /\ \E p \in Procs : proc[p].cmd = "shop_remove" /\ proc[p].result = "ok"
  /\ shop_items /= {}
  /\ \E u \in Users : Balance(users, u) > 0

\* C17: a purchase asks the platform for the grant (with either outcome) only
\* once its debit of the cost is committed, and asks for the write of
\* purchased_by_user_id (with either outcome) only once the grant has succeeded
\* and only for a one-time item.
C17_PurchaseStepOrder ==
  [][\A p \in Procs :
       /\ (proc[p].pc = "buy_grant" /\ proc'[p].pc /= "buy_grant") =>
            /\ proc[p].item.cost > 0
            /\ proc[p].net = 0 - proc[p].item.cost
            /\ ~proc[p].granted /\ ~proc[p].marked
       /\ (proc[p].pc = "buy_mark" /\ proc'[p].pc /= "buy_mark") =>
            /\ proc[p].net = 0 - proc[p].item.cost
            /\ proc[p].granted
            /\ proc[p].item.is_one_time_buy
       /\ (~proc[p].marked /\ proc'[p].marked) => proc[p].pc = "buy_mark"
       /\ (~proc[p].granted /\ proc'[p].granted) => proc[p].pc = "buy_grant"]_vars

\* a purchase of a one-time item has been debited, granted and marked
C17_Witness ==
  \E p \in Procs :
    /\ proc[p].pc = "buy_respond" /\ proc[p].item.is_one_time_buy
    /\ proc[p].net = 0 - proc[p].item.cost /\ proc[p].item.cost > 0
    /\ proc[p].granted /\ proc[p].marked
    /\ get_shop_item(shop_items, proc[p].item.guild_id, proc[p].item.name)
         .purchased_by_user_id = proc[p].user

\* C18: every add_coins(u, d) changes the balance of u by exactly d and no other
\* balance: the calls of /generate on an account with a row, and every call
\* that found no row at its SELECT, whatever other calls ran before its INSERT.
C18_AddCoinsExact ==
  [][/\ \A p \in Procs : (Starts(p) /\ proc'[p].cmd = "generate") =>
        \A a \in Users, n \in Amounts, r \in Users :
          (/\ is_constellation(a, MAIN_GUILD_ID) /\ n > 0 /\ HasRow(users, r)
           /\ Generate(p, a, n, r)) =>
            \A v \in Users :
              Balance(users', v) = Balance(users, v) + (IF v = r THEN n ELSE 0)
     /\ \A p \in Procs :
          (proc[p].pc = "add_insert" /\ proc'[p].pc /= "add_insert") =>
            \A v \in Users :
              Balance(users', v) =
                Balance(users, v) + (IF v = proc[p].target THEN proc[p].amount ELSE 0)]_vars

\* C19: for every limit and either order of equal balances, get_leaderboard on
\* the stored accounts returns min(limit, number of accounts) rows, each the
\* (user_id, balance) of a different stored account, in non-increasing balance
\* order, and no account left out has a larger balance than one listed.
C19_LeaderboardTopK ==
  \A limit \in Limits \cup {LEADERBOARD_LIMIT}, rev \in BOOLEAN :
    LET lb     == get_leaderboard(users, limit, rev)
        listed == {lb[i].user_id : i \in 1..Len(lb)}
    IN  /\ Len(lb) = Min(limit, Cardinality(DOMAIN users))
        /\ Cardinality(listed) = Len(lb)
        /\ \A i \in 1..Len(lb) :
             HasRow(users, lb[i].user_id) /\ lb[i].balance = users[lb[i].user_id]
        /\ \A i, j \in 1..Len(lb) : i < j => lb[i].balance >= lb[j].balance
        /\ \A u \in DOMAIN users \ listed, i \in 1..Len(lb) : lb[i].balance >= users[u]

\* a /leaderboard has been shown; two accounts with different balances are
\* stored, the one with the smaller user_id holding less, and a limit of 1
\* leaves one of them out
C19_Witness ==
  /\ \E p \in Procs : proc[p].cmd = "leaderboard" /\ proc[p].result = "ok"
  /\ \E u, v \in DOMAIN users : u < v /\ users[u] < users[v]
  /\ Len(get_leaderboard(users, 1, FALSE)) < Cardinality(DOMAIN users)

Rejections ==
  {"not_found", "already_claimed", "insufficient", "role_missing", "role_held",
   "not_grantable"}

\* process p takes a step of a purchase that is before its debit
PreDebitStep(p) ==
  \/ Starts(p) /\ proc'[p].cmd = "buy"
  \/ /\ proc[p].pc \in {"buy_check", "buy_check_insert", "buy_roles"}
     /\ proc'[p].pc /= proc[p].pc

\* C20: no step of a purchase before its debit changes a balance, an item or a
\* role, so a purchase rejected there (item not found, already claimed, balance
\* below cost, role missing, held or not grantable) has changed none; the
\* rejection is an outcome of its own: nothing has raised and the handler of
\* line 377 is not entered.
C20_RejectedPurchaseFrame ==
  [][\A p \in Procs :
       PreDebitStep(p) =>
         /\ \A v \in Users : Balance(users', v) = Balance(users, v)
         /\ shop_items' = shop_items
         /\ member_roles' = member_roles
         /\ proc'[p].result \in Rejections =>
              /\ proc'[p].pc = "done"
              /\ proc'[p].fail = "none" /\ proc'[p].net = 0
              /\ ~proc'[p].granted /\ ~proc'[p].marked]_vars

\* a purchase has been rejected for a held role while its buyer holds coins and
\* the item is in the catalog
C20_Witness ==
  \E p \in Procs :
    /\ proc[p].cmd = "buy" /\ proc[p].pc = "done" /\ proc[p].result = "role_held"
    /\ shop_items /= {}
    /\ \E u \in Users : Balance(users, u) > 0

\* the command process p has started in this step was refused and has changed
\* nothing
RefusedUnchanged(p) ==
  /\ proc'[p].pc = "done" /\ proc'[p].result = "rejected"
  /\ users' = users /\ shop_items' = shop_items /\ member_roles' = member_roles

\* C21: a /generate, /confiscate, /shop add or /shop remove whose author is not
\* a Constellation, or whose amount or cost is not positive, is refused and
\* changes no balance and no item (a step of these commands that is anything
\* else has a Constellation as author and a positive amount or cost); so every
\* item of the catalog has cost > 0 and the amount a generate or confiscate in
\* flight was asked for is positive.
C21_PrivilegedGuards ==
  [][/\ \A it \in shop_items' : it.cost > 0
     /\ \A p \in Procs :
          /\ (proc'[p].cmd = "generate" /\ proc'[p].pc = "add_insert")
               => proc'[p].amount > 0
          /\ proc'[p].pc \in {"conf_insert", "conf_debit"} => proc'[p].amount > 0
          /\ (/\ Starts(p) /\ proc'[p].cmd \in {"generate", "confiscate"}
              /\ ~RefusedUnchanged(p)) =>
               \A a \in Users, n \in Amounts, r \in Users :
                 (Generate(p, a, n, r) \/ Confiscate(p, a, n, r))
                   => is_constellation(a, MAIN_GUILD_ID) /\ n > 0
          /\ (Starts(p) /\ proc'[p].cmd = "shop_add" /\ ~RefusedUnchanged(p)) =>
               \A a \in Users, g \in Guilds \cup {NULL}, nm \in Names, c \in Costs,
                  r \in Roles, o \in BOOLEAN :
                 ShopAdd(p, a, g, nm, c, r, o) => is_constellation(a, g) /\ c > 0
          /\ (Starts(p) /\ proc'[p].cmd = "shop_remove" /\ ~RefusedUnchanged(p)) =>
               \A a \in Users, g \in Guilds \cup {NULL}, nm \in Names :
                 ShopRemove(p, a, g, nm) => is_constellation(a, g)]_vars

\* a /generate has been refused while an account holds coins and the catalog
\* has an item
C21_Witness ==
  /\ \E p \in Procs : proc[p].cmd = "generate" /\ proc[p].result = "rejected"
  /\ shop_items /= {}
  /\ \E u \in Users : Balance(users, u) > 0

\* C23: a purchase that ends having granted its role has changed its buyer's
\* balance by exactly -cost.
C23_RewardMeansPaid ==
  [][\A p \in Procs :
       (/\ proc[p].cmd = "buy" /\ proc[p].pc /= "done"
        /\ proc'[p].cmd = "buy" /\ proc'[p].pc = "done" /\ proc'[p].granted)
         => proc'[p].net = 0 - proc[p].item.cost]_vars

\* C24: the debit of a confiscation removes between 0 and the amount asked
\* for, and leaves its target's balance no greater than it was.
C24_ConfiscationNeverIncreases ==
  [][\A p \in Procs :
       /\ proc'[p].pc = "conf_debit" =>
            /\ amount_to_remove(proc'[p].amount, proc'[p].read) >= 0
            /\ amount_to_remove(proc'[p].amount, proc'[p].read) <= proc'[p].amount
       /\ ConfiscationCommits(p) =>
            Balance(users', ConfTarget(p)) <= Balance(users, ConfTarget(p))]_vars

\* no command is in flight
Quiescent(pr) == \A p \in Procs : pr[p].pc = "done"

\* process p takes a step of a /pay, or a step of a purchase that ends it with
\* a rejection
PayOrRejectedStep(p) ==
  \/ PreDebitStep(p) /\ proc'[p].result \in Rejections
  \/ proc'[p].cmd = "pay" /\ (Starts(p) \/ proc[p].pc /= proc'[p].pc)

\* C22: without storage or platform faults, whenever no command is in flight
\* the sum of all balances equals the books (minted by generate, minus removed
\* by confiscate, minus the cost of the successful purchases); no step of a pay
\* and no rejection of a purchase changes the sum; the handler of a purchase is
\* never entered.
C22_CurrencyAccounting ==
  [][/\ Quiescent(proc') => TotalBalance(users') = ledger'
     /\ \A p \in Procs :
          /\ PayOrRejectedStep(p) => TotalBalance(users') = TotalBalance(users)
          /\ proc'[p].pc \notin {"buy_except", "buy_refund"}]_vars

\* no command is in flight, a purchase has succeeded, coins have been minted and
\* a race has left an account with a negative balance
C22_Witness ==
  /\ Quiescent(proc)
  /\ \E h \in history : h[3] = "ok"
  /\ \E u \in Users : Balance(users, u) < 0
  /\ ledger < 0

====
